---- MODULE Spec2Model ----
(***************************************************************************)
(* Dual bound propagation of convex_adversarial/dual.py.                   *)
(*                                                                         *)
(* Tensors hold exact rationals <<num, den>> (den > 0, lowest terms): the  *)
(* model follows the arithmetic the code writes, not float rounding.       *)
(* One example per minibatch: a feature tensor is a sequence of rationals  *)
(* (a vector), a certificate tensor a sequence of such rows.               *)
(***************************************************************************)
EXTENDS Integers, Sequences, FiniteSets

VARIABLES
    net,          \* the network handed to DualNetBounds: a sequence of layers
    X,            \* the nominal input
    epsilon,      \* the radius of the ball
    l1_proj,      \* projection size (NoProj for None)
    l1_type,      \* 'exact' or 'median'
    pc,           \* "building", "built" (self.dual_net assigned), "error"
    i,            \* index of the layer the build loop is at (0-based, as enumerate)
    dual_net,     \* the local list dual_net of __init__, then self.dual_net
    last_layer,   \* self.last_layer, NoOp while unassigned
    err,          \* what was raised, "" if nothing
    lastc,        \* the objective of the latest g(c), <<>> before any
    lastg,        \* the bound the latest g(c) returned
    firstg,       \* objective -> the bound its first evaluation returned
    sweep,        \* the sub-layer transposes the latest g(c) applied: <<block, slot, target>>
    cv            \* the state of one call of conv2d / conv_transpose2d

vars == <<net, X, epsilon, l1_proj, l1_type, pc, i, dual_net, last_layer, err,
          lastc, lastg, firstg, sweep, cv>>

----------------------------------------------------------------------------
(* Exact rational arithmetic *)

RECURSIVE GCD(_, _)
GCD(a, b) == IF b = 0 THEN a ELSE GCD(b, a % b)

IAbs(n) == IF n < 0 THEN -n ELSE n

Norm(n, d) ==
    LET g == GCD(IAbs(n), d)
    IN  IF n = 0 THEN <<0, 1>> ELSE <<n \div g, d \div g>>

R(n) == <<n, 1>>

RAdd(a, b) ==
    LET g == GCD(a[2], b[2])
    IN  Norm(a[1] * (b[2] \div g) + b[1] * (a[2] \div g), (a[2] \div g) * b[2])

RNeg(a) == <<-a[1], a[2]>>

RSub(a, b) == RAdd(a, RNeg(b))

RMul(a, b) ==
    LET g1 == GCD(IAbs(a[1]), b[2])
        g2 == GCD(IAbs(b[1]), a[2])
    IN  IF a[1] = 0 \/ b[1] = 0 THEN <<0, 1>>
        ELSE <<(a[1] \div g1) * (b[1] \div g2), (a[2] \div g2) * (b[2] \div g1)>>

\* a / b for b # 0
RDiv(a, b) ==
    IF b[1] > 0 THEN RMul(a, <<b[2], b[1]>>) ELSE RMul(a, <<-b[2], -b[1]>>)

RLt(a, b) ==
    LET g == GCD(a[2], b[2])
    IN  a[1] * (b[2] \div g) < b[1] * (a[2] \div g)

RLe(a, b) == ~RLt(b, a)

RAbs(a) == <<IAbs(a[1]), a[2]>>

\* x.clamp(min=0)
RClamp0(a) == IF a[1] < 0 THEN <<0, 1>> ELSE a

----------------------------------------------------------------------------
(* Vectors and certificates *)

RECURSIVE RSum(_)
RSum(s) == IF s = <<>> THEN <<0, 1>> ELSE RAdd(s[1], RSum(Tail(s)))

Zeros(n) == [k \in 1..n |-> <<0, 1>>]

VAdd(u, v) == [k \in 1..Len(u) |-> RAdd(u[k], v[k])]

VMul(u, v) == [k \in 1..Len(u) |-> RMul(u[k], v[k])]

VNeg(u) == [k \in 1..Len(u) |-> RNeg(u[k])]

VScale(a, u) == [k \in 1..Len(u) |-> RMul(a, u[k])]

Dot(u, v) == RSum([k \in 1..Len(u) |-> RMul(u[k], v[k])])

\* sum of a python list of vectors of width n (sum() starts from 0, which broadcasts)
RECURSIVE VSum(_, _)
VSum(vs, n) == IF vs = <<>> THEN Zeros(n) ELSE VAdd(vs[1], VSum(Tail(vs), n))

VLe(u, v) == \A k \in 1..Len(u) : RLe(u[k], v[k])

Last(s) == s[Len(s)]

----------------------------------------------------------------------------
(* Tensors: a tensor is its sequence of rows (the leading dimensions, one   *)
(* example per minibatch), each row the flattened features                 *)

TAdd(a, b) == [r \in 1..Len(a) |-> VAdd(a[r], b[r])]

\* sum() of a python list of tensors shaped like `like`; an empty list sums to 0
RECURSIVE TSum(_, _)
TSum(ts, like) ==
    IF ts = <<>> THEN [r \in 1..Len(like) |-> Zeros(Len(like[r]))]
    ELSE IF Len(ts) = 1 THEN ts[1]
    ELSE TAdd(ts[1], TSum(Tail(ts), like))

\* integer literals of the network tables, as rationals
IV(v) == [k \in 1..Len(v) |-> R(v[k])]

IM(W) == [o \in 1..Len(W) |-> IV(W[o])]

\* W.t()
Transpose(W) == [k \in 1..Len(W[1]) |-> [o \in 1..Len(W) |-> W[o][k]]]

\* F.linear(x, W) without bias: every row times W^T
F_linear(x, W) == [r \in 1..Len(x) |-> [o \in 1..Len(W) |-> Dot(x[r], W[o])]]

\* F.conv2d on 1x1 feature maps with a 1x1 kernel: each row is mapped by the
\* kernel matrix, rows are independent; no rows in, no rows out
F_conv2d(x, W) == [r \in 1..Len(x) |-> [o \in 1..Len(W) |-> Dot(x[r], W[o])]]

F_conv_transpose2d(x, W) ==
    [r \in 1..Len(x) |-> [k \in 1..Len(W[1]) |-> Dot(x[r], Transpose(W)[k])]]

----------------------------------------------------------------------------
(* conv2d / conv_transpose2d: the minibatched helpers *)

batch_size == 10000

batch_size_t == 10000

Min(a, b) == IF a < b THEN a ELSE b

\* x[lo:hi], python slice on the first dimension (0-based, hi exclusive)
Slice(x, lo, hi) == SubSeq(x, lo + 1, Min(hi, Len(x)))

\* one pass of the body of `while i < x.size(0)` of conv2d
conv2d_body(st, x, W) ==
    [i   |-> st.i + batch_size,
     out |-> Append(st.out, F_conv2d(Slice(x, st.i, Min(st.i + batch_size, Len(x))), W))]

conv_transpose2d_body(st, x, W) ==
    [i   |-> st.i + batch_size_t,
     out |-> Append(st.out,
                    F_conv_transpose2d(Slice(x, st.i, Min(st.i + batch_size_t, Len(x))), W))]

RECURSIVE Concat(_)
Concat(chunks) == IF chunks = <<>> THEN <<>> ELSE chunks[1] \o Concat(Tail(chunks))

\* torch.cat(out, 0): raises on an empty list
torch_cat(out) ==
    IF out = <<>> THEN [ok |-> FALSE, val |-> <<>>]
    ELSE [ok |-> TRUE, val |-> Concat(out)]

RECURSIVE conv2d_loop(_, _, _)
conv2d_loop(st, x, W) ==
    IF st.i < Len(x) THEN conv2d_loop(conv2d_body(st, x, W), x, W) ELSE st

RECURSIVE conv_transpose2d_loop(_, _, _)
conv_transpose2d_loop(st, x, W) ==
    IF st.i < Len(x) THEN conv_transpose2d_loop(conv_transpose2d_body(st, x, W), x, W)
    ELSE st

conv2d(x, W) == torch_cat(conv2d_loop([i |-> 0, out |-> <<>>], x, W).out)

conv_transpose2d(x, W) ==
    torch_cat(conv_transpose2d_loop([i |-> 0, out |-> <<>>], x, W).out)

----------------------------------------------------------------------------
(* Network layers, as the caller hands them over *)

Layer0 ==
    [kind |-> "", weight |-> <<>>, hasBias |-> FALSE, bias |-> <<>>, Ws |-> <<>>,
     running_mean |-> <<>>, running_var |-> <<>>, eps |-> <<0, 1>>]

Linear(W, b) ==
    [Layer0 EXCEPT !.kind = "Linear", !.weight = IM(W), !.hasBias = TRUE, !.bias = IV(b)]

LinearNoBias(W) == [Layer0 EXCEPT !.kind = "Linear", !.weight = IM(W)]

Conv2d(W, b) ==
    [Layer0 EXCEPT !.kind = "Conv2d", !.weight = IM(W), !.hasBias = TRUE, !.bias = IV(b)]

ReLU == [Layer0 EXCEPT !.kind = "ReLU"]

Flatten == [Layer0 EXCEPT !.kind = "Flatten"]

\* nn.Sequential() with no module in it
Sequential0 == [Layer0 EXCEPT !.kind = "Sequential"]

\* an absent slot of a Dense block
NoneLayer == [Layer0 EXCEPT !.kind = "None"]

\* a module no branch of the constructors recognizes
Unknown == [Layer0 EXCEPT !.kind = "Unknown"]

Dense(Ws) == [Layer0 EXCEPT !.kind = "Dense", !.Ws = Ws]

\* nn.BatchNorm2d in eval mode, eps = 1e-5
BatchNorm2d(w, b, mean, var) ==
    [Layer0 EXCEPT !.kind = "BatchNorm2d", !.weight = w, !.hasBias = TRUE, !.bias = b,
                   !.running_mean = mean, !.running_var = var, !.eps = <<1, 100000>>]

----------------------------------------------------------------------------
(* Dual operators.  One record shape for every class; a field a class does *)
(* not own stays at its blank value.  `layer` (index in net, -1 for the   *)
(* ball) and `slot` (position inside a Dense block, -1 outside) identify   *)
(* the object; `applied` lists the operators its apply has been called     *)
(* with, by layer index.                                                   *)

NoOp ==
    [cls |-> "None", layer |-> -1, slot |-> -1, applied |-> <<>>,
     weight |-> <<>>, hasBias |-> FALSE, bias |-> <<>>,
     epsilon |-> <<0, 1>>, nu_x |-> <<>>, nu_1 |-> <<>>,
     I |-> <<>>, d |-> <<>>, zl |-> <<>>, I_empty |-> FALSE, nus |-> <<>>, nu_ones |-> <<>>,
     D |-> <<>>, ds |-> <<>>, duals |-> <<>>, dual_ts |-> <<>>]

\* torch.eye(n) viewed as (1, n, features)
Eye(n) == [r \in 1..n |-> [k \in 1..n |-> IF r = k THEN <<1, 1>> ELSE <<0, 1>>]]

InfBall(x, eps) ==
    [NoOp EXCEPT !.cls = "InfBall", !.epsilon = eps, !.nu_x = <<(<<x>>)>>,
                 !.nu_1 = <<Eye(Len(x))>>]

\* Aff.full_bias(layer, out_features[1:]): the bias as a (1, features) tensor
full_bias(layer) == <<layer.bias>>

DualLinear(layer, id) ==
    [NoOp EXCEPT !.cls = "DualLinear", !.layer = id, !.weight = layer.weight,
                 !.hasBias = layer.hasBias,
                 !.bias = IF layer.hasBias THEN <<full_bias(layer)>> ELSE <<>>]

DualConv2d(layer, id) ==
    [NoOp EXCEPT !.cls = "DualConv2d", !.layer = id, !.weight = layer.weight,
                 !.hasBias = layer.hasBias,
                 !.bias = IF layer.hasBias THEN <<full_bias(layer)>> ELSE <<>>]

DualReshape(id) == [NoOp EXCEPT !.cls = "DualReshape", !.layer = id]

DualSequential(id) == [NoOp EXCEPT !.cls = "DualSequential", !.layer = id]

\* the indices j with I[j], in the order of nonzero()
RECURSIVE Nonzero(_, _)
Nonzero(I, j) ==
    IF j > Len(I) THEN <<>>
    ELSE IF I[j] THEN <<j>> \o Nonzero(I, j + 1) ELSE Nonzero(I, j + 1)

I_ind(I) == Nonzero(I, 1)

I_sum(I) == Len(I_ind(I))

\* DualReLU.__init__ without the early return on I.sum() == 0
DualReLU_noEmpty(I, d, zl, id) ==
    [NoOp EXCEPT !.cls = "DualReLU", !.layer = id, !.I = I, !.d = d, !.zl = zl,
                 !.I_empty = FALSE,
                 !.nus = << [r \in 1..I_sum(I) |->
                               [k \in 1..Len(d) |->
                                   IF k = I_ind(I)[r] THEN d[k] ELSE <<0, 1>>]] >>]

\* DualReLU.__init__: one row per unstable activation, d scattered at its coordinate
DualReLU(I, d, zl, id) ==
    IF I_sum(I) > 0
    THEN [NoOp EXCEPT !.cls = "DualReLU", !.layer = id, !.I = I, !.d = d, !.zl = zl,
                      !.I_empty = FALSE,
                      !.nus = << [r \in 1..I_sum(I) |->
                                    [k \in 1..Len(d) |->
                                        IF k = I_ind(I)[r] THEN d[k] ELSE <<0, 1>>]] >>]
    ELSE [NoOp EXCEPT !.cls = "DualReLU", !.layer = id, !.I = I, !.d = d, !.zl = zl,
                      !.I_empty = TRUE]

\* DualReLUProj.__init__ with k >= 0 directions; cauchy[r][j] is the sample drawn
\* for direction r at activation j (used on the unstable ones only)
DualReLUProj(I, d, zl, k, cauchy, id) ==
    IF I_sum(I) = 0
    THEN [NoOp EXCEPT !.cls = "DualReLUProj", !.layer = id, !.I = I, !.d = d, !.zl = zl,
                      !.I_empty = TRUE]
    ELSE [NoOp EXCEPT !.cls = "DualReLUProj", !.layer = id, !.I = I, !.d = d, !.zl = zl,
                      !.I_empty = FALSE,
                      !.nus = << [r \in 1..k |->
                                    [j \in 1..Len(d) |->
                                        RMul(d[j], RMul(zl[j],
                                             IF I[j] THEN cauchy[r][j] ELSE <<0, 1>>))]] >>,
                      !.nu_ones = << << [j \in 1..Len(d) |->
                                        RMul(d[j], RMul(zl[j],
                                             IF I[j] THEN <<1, 1>> ELSE <<0, 1>>))] >> >>]

\* sqrt of a rational whose numerator and denominator are perfect squares
ISqrt(n) == CHOOSE r \in 0..n : r * r = n

RSqrt(a) == <<ISqrt(a[1]), ISqrt(a[2])>>

\* DualBatchNorm2d.__init__, layer.training false: statistics are the running ones
DualBatchNorm2d(layer, id) ==
    LET denom == [k \in 1..Len(layer.weight) |->
                     RSqrt(RAdd(layer.running_var[k], layer.eps))]
    IN  [NoOp EXCEPT !.cls = "DualBatchNorm2d", !.layer = id,
                     !.D = [k \in 1..Len(layer.weight) |-> RDiv(layer.weight[k], denom[k])],
                     !.ds = << << [k \in 1..Len(layer.weight) |->
                                 RSub(layer.bias[k],
                                      RMul(layer.weight[k],
                                           RDiv(layer.running_mean[k], denom[k])))] >> >>]

----------------------------------------------------------------------------
(* affine / affine_transpose: xs is the history the caller unpacks         *)

\* DualReLU.affine: d*x (d.unsqueeze(1) broadcasts d over the rows; with I_ind
\* every row takes d of its example, d[I_ind[:,0]], the one example there is)
DualReLU_affine(op, xs) == [r \in 1..Len(Last(xs)) |-> VMul(op.d, Last(xs)[r])]

DualBatchNorm2d_affine(op, xs) == [r \in 1..Len(Last(xs)) |-> VMul(op.D, Last(xs)[r])]

\* affine of every class but DualDense
affine1(op, xs) ==
    CASE op.cls = "DualLinear"      -> F_linear(Last(xs), op.weight)
      [] op.cls = "DualConv2d"      -> conv2d(Last(xs), op.weight).val
      [] op.cls = "DualReshape"     -> Last(xs)
      [] op.cls = "DualSequential"  -> Last(xs)
      [] op.cls = "DualReLU"        -> DualReLU_affine(op, xs)
      [] op.cls = "DualReLUProj"    -> DualReLU_affine(op, xs)
      [] op.cls = "DualBatchNorm2d" -> DualBatchNorm2d_affine(op, xs)

affine_transpose1(op, xs) ==
    CASE op.cls = "DualLinear"      -> F_linear(Last(xs), Transpose(op.weight))
      [] op.cls = "DualConv2d"      -> conv_transpose2d(Last(xs), op.weight).val
      [] op.cls = "DualReshape"     -> Last(xs)
      [] op.cls = "DualSequential"  -> Last(xs)
      [] op.cls = "DualReLU"        -> DualReLU_affine(op, xs)
      [] op.cls = "DualReLUProj"    -> DualReLU_affine(op, xs)
      [] op.cls = "DualBatchNorm2d" -> DualBatchNorm2d_affine(op, xs)

\* ws[-min(len(xs), len(ws)):]
Window(ws, xs) == SubSeq(ws, Len(ws) - Min(Len(xs), Len(ws)) + 1, Len(ws))

\* the python index i that zip(range(-len(ws) + len(xs), len(xs)), ws) pairs with
\* the j-th (1-based) entry of the window ws
ZipIndex(ws, xs, j) == Len(xs) - Len(ws) + (j - 1)

\* xs[:i+1]
Prefix(xs, idx) == SubSeq(xs, 1, idx + 1)

\* the terms W.affine on xs[:i+1] of DualDense.affine, W not None, from the j-th on
RECURSIVE DenseAffineTerms(_, _, _)
DenseAffineTerms(ws, xs, j) ==
    IF j > Len(ws) THEN <<>>
    ELSE IF ws[j].cls = "None" THEN DenseAffineTerms(ws, xs, j + 1)
    ELSE <<affine1(ws[j], Prefix(xs, ZipIndex(ws, xs, j)))>>
            \o DenseAffineTerms(ws, xs, j + 1)

DualDense_affine(op, xs) ==
    TSum(DenseAffineTerms(Window(op.duals, xs), xs, 1), Last(xs))

\* the terms W.affine_transpose on xs[:i+1] of DualDense.affine_transpose
RECURSIVE DenseTransposeTerms(_, _, _)
DenseTransposeTerms(ws, xs, j) ==
    IF j > Len(ws) THEN <<>>
    ELSE IF ws[j].cls = "None" THEN DenseTransposeTerms(ws, xs, j + 1)
    ELSE <<affine_transpose1(ws[j], Prefix(xs, ZipIndex(ws, xs, j)))>>
            \o DenseTransposeTerms(ws, xs, j + 1)

DualDense_affine_transpose(op, xs) ==
    TSum(DenseTransposeTerms(Window(op.dual_ts, xs), xs, 1), Last(xs))

affine(op, xs) ==
    IF op.cls = "DualDense" THEN DualDense_affine(op, xs) ELSE affine1(op, xs)

affine_transpose(op, xs) ==
    IF op.cls = "DualDense" THEN DualDense_affine_transpose(op, xs)
    ELSE affine_transpose1(op, xs)

\* which sub-layer transposes one call of affine_transpose applies, and on which of
\* the certificates xs: <<block (layer index), slot, index into xs>> per call
RECURSIVE DenseTransposeCalls(_, _, _)
DenseTransposeCalls(ws, xs, j) ==
    IF j > Len(ws) THEN <<>>
    ELSE IF ws[j].cls = "None" THEN DenseTransposeCalls(ws, xs, j + 1)
    ELSE <<(<<ws[j].layer, ws[j].slot, ZipIndex(ws, xs, j)>>)>>
            \o DenseTransposeCalls(ws, xs, j + 1)

TransposeCalls(op, xs) ==
    IF op.cls = "DualDense" THEN DenseTransposeCalls(Window(op.dual_ts, xs), xs, 1)
    ELSE <<>>

----------------------------------------------------------------------------
(* apply *)

\* InfBall.apply that pushes nu_x only
InfBall_apply_xOnly(op, dl) == [op EXCEPT !.nu_x = Append(@, affine(dl, op.nu_x))]

InfBall_apply(op, dl) ==
    [op EXCEPT !.nu_x = Append(@, affine(dl, op.nu_x)),
               !.nu_1 = Append(@, affine(dl, op.nu_1))]

DualLinear_apply(op, dl) ==
    IF op.hasBias THEN [op EXCEPT !.bias = Append(@, affine(dl, op.bias))] ELSE op

DualReLU_apply(op, dl) ==
    IF op.I_empty THEN op ELSE [op EXCEPT !.nus = Append(@, affine(dl, op.nus))]

DualReLUProj_apply(op, dl) ==
    IF op.I_empty THEN op
    ELSE [op EXCEPT !.nus = Append(@, affine(dl, op.nus)),
                    !.nu_ones = Append(@, affine(dl, op.nu_ones))]

DualBatchNorm2d_apply(op, dl) == [op EXCEPT !.ds = Append(@, affine(dl, op.ds))]

\* apply of every class but DualDense; the call is noted in `applied`
apply1(op, dl) ==
    LET done ==
          CASE op.cls = "InfBall"         -> InfBall_apply(op, dl)
            [] op.cls = "DualLinear"      -> DualLinear_apply(op, dl)
            [] op.cls = "DualConv2d"      -> DualLinear_apply(op, dl)
            [] op.cls = "DualReLU"        -> DualReLU_apply(op, dl)
            [] op.cls = "DualReLUProj"    -> DualReLUProj_apply(op, dl)
            [] op.cls = "DualBatchNorm2d" -> DualBatchNorm2d_apply(op, dl)
            [] OTHER                      -> op
    IN  [done EXCEPT !.applied = Append(@, dl.layer)]

\* DualDense.apply: every sub-layer that is not None
DualDense_apply(op, dl) ==
    [op EXCEPT !.duals = [j \in 1..Len(op.duals) |->
                             IF op.duals[j].cls = "None" THEN op.duals[j]
                             ELSE apply1(op.duals[j], dl)],
               !.applied = Append(@, dl.layer)]

apply(op, dl) ==
    IF op.cls = "DualDense" THEN DualDense_apply(op, dl) ELSE apply1(op, dl)

----------------------------------------------------------------------------
(* fval *)

\* t.abs().sum(1) of a (1, rows, features) certificate
AbsSum1(t, n) == [k \in 1..n |-> RSum([r \in 1..Len(t) |-> RAbs(t[r][k])])]

\* torch.median of a non-empty list: the lower median
Median(vals) ==
    LET k  == Len(vals)
        lt(v) == Cardinality({r \in 1..k : RLt(vals[r], v)})
        le(v) == Cardinality({r \in 1..k : RLe(vals[r], v)})
    IN  CHOOSE v \in {vals[r] : r \in 1..k} :
            lt(v) <= (k - 1) \div 2 /\ (k - 1) \div 2 < le(v)

Half(a) == RMul(a, <<1, 2>>)

InfBall_fval0(op, n) ==
    LET l1 == AbsSum1(Last(op.nu_1), n)
        x  == Last(op.nu_x)[1]
    IN  << [k \in 1..n |-> RSub(x[k], RMul(op.epsilon, l1[k]))],
           [k \in 1..n |-> RAdd(x[k], RMul(op.epsilon, l1[k]))] >>

DualLinear_fval0(op, n) ==
    IF op.hasBias THEN <<Last(op.bias)[1], Last(op.bias)[1]>> ELSE <<Zeros(n), Zeros(n)>>

\* DualReLU.fval() with the minus sign of zu dropped
DualReLU_fval0_noMinus(op, n) ==
    IF op.I_empty THEN <<Zeros(n), Zeros(n)>>
    ELSE LET nu  == Last(op.nus)
             zlI == [r \in 1..Len(nu) |-> op.zl[I_ind(op.I)[r]]]
         IN  << [k \in 1..n |->
                    RSum([r \in 1..Len(nu) |-> RMul(zlI[r], RClamp0(RNeg(nu[r][k])))])],
                [k \in 1..n |->
                    RSum([r \in 1..Len(nu) |-> RMul(zlI[r], RClamp0(nu[r][k]))])] >>

DualReLU_fval0(op, n) ==
    IF op.I_empty THEN <<Zeros(n), Zeros(n)>>
    ELSE LET nu  == Last(op.nus)
             zlI == [r \in 1..Len(nu) |-> op.zl[I_ind(op.I)[r]]]
         IN  << [k \in 1..n |->
                    RSum([r \in 1..Len(nu) |-> RMul(zlI[r], RClamp0(RNeg(nu[r][k])))])],
                [k \in 1..n |->
                    RNeg(RSum([r \in 1..Len(nu) |-> RMul(zlI[r], RClamp0(nu[r][k]))]))] >>

DualReLUProj_fval0(op, n) ==
    IF op.I_empty THEN <<Zeros(n), Zeros(n)>>
    ELSE LET nu == Last(op.nus)
             md == [k \in 1..n |-> Median([r \in 1..Len(nu) |-> RAbs(nu[r][k])])]
             no == Last(op.nu_ones)[1]
         IN  << [k \in 1..n |-> Half(RSub(RNeg(md[k]), no[k]))],
                [k \in 1..n |-> Half(RSub(md[k], no[k]))] >>

DualBatchNorm2d_fval0(op, n) == <<Last(op.ds)[1], Last(op.ds)[1]>>

\* fval() of every class but DualDense; n is the width the result broadcasts to
fval01(op, n) ==
    CASE op.cls = "InfBall"         -> InfBall_fval0(op, n)
      [] op.cls = "DualLinear"      -> DualLinear_fval0(op, n)
      [] op.cls = "DualConv2d"      -> DualLinear_fval0(op, n)
      [] op.cls = "DualReLU"        -> DualReLU_fval0(op, n)
      [] op.cls = "DualReLUProj"    -> DualReLUProj_fval0(op, n)
      [] op.cls = "DualBatchNorm2d" -> DualBatchNorm2d_fval0(op, n)
      [] OTHER                      -> <<Zeros(n), Zeros(n)>>

\* the sub-layers of a block that are not None
NotNone(ws) == SelectSeq(ws, LAMBDA w : w.cls # "None")

DualDense_fval0(op, n) ==
    LET fvals == [j \in 1..Len(NotNone(op.duals)) |-> fval01(NotNone(op.duals)[j], n)]
    IN  << VSum([j \in 1..Len(fvals) |-> fvals[j][1]], n),
           VSum([j \in 1..Len(fvals) |-> fvals[j][2]], n) >>

\* fval(): (lower, upper)
fval0(op, n) == IF op.cls = "DualDense" THEN DualDense_fval0(op, n) ELSE fval01(op, n)

\* fval(nu=nu, nu_prev=nu_prev), one objective: nu and nu_prev are vectors
InfBall_fval(op, nu) ==
    RSub(RNeg(Dot(nu, op.nu_x[1][1])),
         RMul(op.epsilon, RSum([k \in 1..Len(nu) |-> RAbs(nu[k])])))

DualLinear_fval(op, nu) ==
    IF op.hasBias THEN RNeg(Dot(nu, op.bias[1][1])) ELSE <<0, 1>>

DualReLU_fval(op, nu_prev) ==
    IF op.I_empty THEN <<0, 1>>
    ELSE RSum([j \in 1..Len(nu_prev) |->
                  IF op.I[j] THEN RMul(RClamp0(nu_prev[j]), op.zl[j]) ELSE <<0, 1>>])

DualBatchNorm2d_fval(op, nu) == RNeg(Dot(nu, op.ds[1][1]))

fval1(op, nu, nu_prev) ==
    CASE op.cls = "InfBall"         -> InfBall_fval(op, nu)
      [] op.cls = "DualLinear"      -> DualLinear_fval(op, nu)
      [] op.cls = "DualConv2d"      -> DualLinear_fval(op, nu)
      [] op.cls = "DualReLU"        -> DualReLU_fval(op, nu_prev)
      [] op.cls = "DualReLUProj"    -> DualReLU_fval(op, nu_prev)
      [] op.cls = "DualBatchNorm2d" -> DualBatchNorm2d_fval(op, nu)
      [] OTHER                      -> <<0, 1>>

DualDense_fval(op, nu, nu_prev) ==
    RSum([j \in 1..Len(NotNone(op.duals)) |-> fval1(NotNone(op.duals)[j], nu, nu_prev)])

fval(op, nu, nu_prev) ==
    IF op.cls = "DualDense" THEN DualDense_fval(op, nu, nu_prev) ELSE fval1(op, nu, nu_prev)

----------------------------------------------------------------------------
(* DualNetBounds.__init__: the ReLU branch *)

\* the literal 1e-5
tol == <<1, 100000>>

\* zl, zu = sum of every chain entry's fval()
Bounds(dn) ==
    LET n  == Len(Last(dn[1].nu_x)[1])
        fv == [k \in 1..Len(dn) |-> fval0(dn[k], n)]
    IN  << VSum([k \in 1..Len(dn) |-> fv[k][1]], n),
           VSum([k \in 1..Len(dn) |-> fv[k][2]], n) >>

\* I = (zu > 1e-5) * (zl < -1e-5)
Unstable(zl, zu) == [j \in 1..Len(zl) |-> RLt(tol, zu[j]) /\ RLt(zl[j], RNeg(tol))]

\* d = (zl >= -1e-5)
SlopeStable(zl) ==
    [j \in 1..Len(zl) |-> IF RLe(RNeg(tol), zl[j]) THEN <<1, 1>> ELSE <<0, 1>>]

\* d after `if I.data.sum() > 0: d[I] += zu[I]/(zu[I] - zl[I])`
Slope(zl, zu) ==
    LET I == Unstable(zl, zu)
        d == SlopeStable(zl)
    IN  [j \in 1..Len(zl) |->
            IF I_sum(I) > 0 /\ I[j]
            THEN RAdd(d[j], RDiv(zu[j], RSub(zu[j], zl[j])))
            ELSE d[j]]

\* l1_proj is not None and l1_type == 'median' and I.data.sum() > l1_proj
\* the threshold test with >= for >
UseProj_atLeast(proj, type, I) == ~proj.none /\ type = "median" /\ I_sum(I) >= proj.k

UseProj(proj, type, I) == ~proj.none /\ type = "median" /\ I_sum(I) > proj.k

----------------------------------------------------------------------------
(* DualDense.__init__ *)

\* the dual of sub-layer W at slot sl of the block of layer id; "" for the else branch
SubDual(W, id, sl) ==
    CASE W.kind = "Conv2d"     -> [DualConv2d(W, id) EXCEPT !.slot = sl]
      [] W.kind = "Linear"     -> [DualLinear(W, id) EXCEPT !.slot = sl]
      [] W.kind = "Sequential" -> [DualSequential(id) EXCEPT !.slot = sl]
      [] W.kind = "None"       -> NoOp
      [] OTHER                 -> [NoOp EXCEPT !.cls = ""]

\* [None]*n, empty for n <= 0
Nones(n) == [k \in 1..n |-> NoOp]

\* the back-reference padded with one None too many
BackRef_pad(dual_layer, m, sl, old) == <<dual_layer>> \o Nones(m - sl - Len(old)) \o old

\* [dual_layer] + [None]*(len(dense.Ws)-i-len(net[idx].dual_ts)-1) + net[idx].dual_ts
BackRef(dual_layer, m, sl, old) == <<dual_layer>> \o Nones(m - sl - Len(old) - 1) \o old

\* the loop over enumerate(dense.Ws) from slot sl on; chain is the list `net` (the
\* caller's dual_net), whose entries the loop rewires
RECURSIVE DenseLoop(_, _, _, _, _)
DenseLoop(Ws, id, chain, duals, sl) ==
    IF sl >= Len(Ws) THEN [err |-> "", duals |-> duals, chain |-> chain]
    ELSE LET W   == Ws[sl + 1]
             dl  == SubDual(W, id, sl)
             idx == sl - Len(Ws) + 1
             pos == Len(chain) + idx + 1
         IN  IF dl.cls = ""
             THEN [err |-> "ValueError", duals |-> duals, chain |-> chain]
             ELSE IF sl < Len(Ws) - 1 /\ W.kind # "None"
             THEN IF pos < 1
                  THEN [err |-> "IndexError", duals |-> duals, chain |-> chain]
                  ELSE IF chain[pos].cls # "DualDense"
                  THEN [err |-> "AttributeError", duals |-> duals, chain |-> chain]
                  ELSE DenseLoop(Ws, id,
                                 [chain EXCEPT ![pos].dual_ts =
                                     BackRef(dl, Len(Ws), sl, chain[pos].dual_ts)],
                                 Append(duals, dl), sl + 1)
             ELSE DenseLoop(Ws, id, chain, Append(duals, dl), sl + 1)

DualDense(dense, chain, id) ==
    LET r == DenseLoop(dense.Ws, id, chain, <<>>, 0)
    IN  [err   |-> IF r.err = "" /\ r.duals = <<>> THEN "IndexError" ELSE r.err,
         chain |-> r.chain,
         op    |-> IF r.err = "" /\ r.duals # <<>>
                   THEN [NoOp EXCEPT !.cls = "DualDense", !.layer = id,
                                     !.duals = r.duals, !.dual_ts = <<Last(r.duals)>>]
                   ELSE NoOp]

----------------------------------------------------------------------------
(* DualNetBounds.__init__: one pass of the loop over the layers *)

Built(chain, op) == [err |-> "", chain |-> chain, op |-> op]

Raised(chain, e) == [err |-> e, chain |-> chain, op |-> NoOp]

\* lines 527-530: the projected relaxation or the exact one. A negative number of
\* directions is no tensor size: allocating nu raises
ChooseReLU(I, d, zl, id, chain, proj, type, cauchy) ==
    IF UseProj(proj, type, I)
    THEN IF I_sum(I) > 0 /\ proj.k < 0
         THEN Raised(chain, "RuntimeError")
         ELSE Built(chain, DualReLUProj(I, d, zl, proj.k, cauchy, id))
    ELSE Built(chain, DualReLU(I, d, zl, id))

\* lines 518-524
ClassifyReLU(zl, zu, id, chain, proj, type, cauchy) ==
    ChooseReLU(Unstable(zl, zu), Slope(zl, zu), zl, id, chain, proj, type, cauchy)

\* MakeDual with the else branch passing the layer through instead of raising
MakeDual_passOther(layer, id, chain, proj, type, cauchy) ==
    CASE layer.kind = "Linear"      -> Built(chain, DualLinear(layer, id))
      [] layer.kind = "Conv2d"      -> Built(chain, DualConv2d(layer, id))
      [] layer.kind = "ReLU"        ->
            ClassifyReLU(Bounds(chain)[1], Bounds(chain)[2], id, chain, proj, type, cauchy)
      [] layer.kind = "Flatten"     -> Built(chain, DualReshape(id))
      [] layer.kind = "Dense"       -> DualDense(layer, chain, id)
      [] layer.kind = "BatchNorm2d" -> Built(chain, DualBatchNorm2d(layer, id))
      [] OTHER                      -> Built(chain, DualReshape(id))

\* the dual operator of `layer` (index id), given the chain so far; cauchy holds the
\* samples a projected ReLU draws
MakeDual(layer, id, chain, proj, type, cauchy) ==
    CASE layer.kind = "Linear"      -> Built(chain, DualLinear(layer, id))
      [] layer.kind = "Conv2d"      -> Built(chain, DualConv2d(layer, id))
      [] layer.kind = "ReLU"        ->
            ClassifyReLU(Bounds(chain)[1], Bounds(chain)[2], id, chain, proj, type, cauchy)
      [] layer.kind = "Flatten"     -> Built(chain, DualReshape(id))
      [] layer.kind = "Dense"       -> DualDense(layer, chain, id)
      [] layer.kind = "BatchNorm2d" -> Built(chain, DualBatchNorm2d(layer, id))
      [] OTHER                      -> Raised(chain, "ValueError")

\* for l in dual_net: l.apply(dual_layer); dual_net.append(dual_layer)
PushAndAppend(chain, dual_layer) ==
    Append([k \in 1..Len(chain) |-> apply(chain[k], dual_layer)], dual_layer)

----------------------------------------------------------------------------
(* DualNetBounds.g *)

\* the sweep over reversed(self.dual_net[2:]): the first chain entry is left out
RECURSIVE SweepNu_from2(_, _, _)
SweepNu_from2(dn, nu, k) ==
    IF k < 3 THEN nu
    ELSE SweepNu_from2(dn, Append(nu, affine_transpose(dn[k], nu)), k - 1)

\* the list nu after `for l in reversed(self.dual_net[1:])` has reached entry k
\* (1-based; entry 1 is the ball, which is not transposed)
RECURSIVE SweepNu(_, _, _)
SweepNu(dn, nu, k) ==
    IF k < 2 THEN nu
    ELSE SweepNu(dn, Append(nu, affine_transpose(dn[k], nu)), k - 1)

\* nu = [-c, last_layer.affine_transpose(-c), ...], each a (1, 1, features) tensor
g_nu(dn, last, c) ==
    LET nu0 == << <<VNeg(c)>> >>
    IN  SweepNu(dn, Append(nu0, affine_transpose(last, nu0)), Len(dn))

\* the sub-layer transposes the sweep applies, in order:
\* <<block, slot, index into nu of the certificate, chain position of the caller>>
RECURSIVE SweepCalls(_, _, _)
SweepCalls(dn, nu, k) ==
    IF k < 2 THEN <<>>
    ELSE LET calls == TransposeCalls(dn[k], nu)
         IN  [j \in 1..Len(calls) |-> calls[j] \o <<k - 1>>]
                \o SweepCalls(dn, Append(nu, affine_transpose(dn[k], nu)), k - 1)

g_calls(dn, last, c) ==
    LET nu0   == << <<VNeg(c)>> >>
        calls == TransposeCalls(last, nu0)
    IN  [j \in 1..Len(calls) |-> calls[j] \o <<Len(dn)>>]
            \o SweepCalls(dn, Append(nu0, affine_transpose(last, nu0)), Len(dn))

\* sum(l.fval(nu=n, nu_prev=nprev) for l,nprev,n in zip(dual_net, nu[:-1], nu[1:]))
\* over nu reversed with None in front; <<>> stands for None
g(dn, last, c) ==
    LET nu  == g_nu(dn, last, c)
        all == Append(dn, last)
        N   == Len(dn)
    IN  RSum([m \in 1..N + 1 |->
                 fval(all[m], nu[N + 2 - m][1],
                      IF m = 1 THEN <<>> ELSE nu[N + 3 - m][1])])

\* g appending the last layer to self.dual_net in place
g_self_dual_net_inPlace(dn, last) == Append(dn, last)

\* self.dual_net after g: `self.dual_net + [self.last_layer]` builds a new list
g_self_dual_net(dn, last) == dn

----------------------------------------------------------------------------
(* The network itself, for the layers whose forward pass the model needs *)

VRelu(v) == [k \in 1..Len(v) |-> RClamp0(v[k])]

\* layer(z) for nn.Linear, nn.Conv2d (1x1), nn.ReLU and Flatten
Forward1(layer, z) ==
    CASE layer.kind = "ReLU"    -> VRelu(z)
      [] layer.kind = "Flatten" -> z
      [] OTHER -> LET y == F_linear(<<z>>, layer.weight)[1]
                  IN  IF layer.hasBias THEN VAdd(y, layer.bias) ELSE y

\* zs of the forward pass, for a network of such layers
RECURSIVE Forward(_, _, _)
Forward(layers, z, k) ==
    IF k > Len(layers) THEN <<z>>
    ELSE <<z>> \o Forward(layers, Forward1(layers[k], z), k + 1)

AffineReLU(layers) == \A k \in 1..Len(layers) : layers[k].kind \in {"Linear", "Conv2d", "ReLU"}

----------------------------------------------------------------------------
(* The inputs explored *)

\* half the tolerance 1e-5 of the ReLU branch: a value inside the band
tiny == <<1, 200000>>

W11 == <<(<<1>>)>>

W22a == << <<1, 1>>, <<1, -1>> >>

W22b == << <<1, -1>>, <<1, 1>> >>

W12 == <<(<<1, 1>>)>>

W21 == << <<1>>, <<-1>> >>

E01 == {<<0, 1>>, <<1, 1>>}

\* networks of affine and ReLU layers, each with the inputs and radii tried on it
PlainNets ==
    { [layers |-> <<Linear(W11, <<0>>), ReLU, Linear(W11, <<0>>)>>,
       xs     |-> {<<RNeg(tiny)>>, <<tiny>>, IV(<<0>>)},
       epss   |-> {<<0, 1>>, tiny, <<3, 200000>>}],
      [layers |-> <<Linear(W11, <<0>>), ReLU, Linear(W11, <<0>>)>>,
       xs     |-> {IV(<<0>>), IV(<<1>>), IV(<<-1>>)},
       epss   |-> {<<0, 1>>, <<1, 1>>, <<2, 1>>}],
      [layers |-> <<Linear(W22a, <<0, 0>>), ReLU, Linear(W22b, <<0, -1>>), ReLU,
                    Linear(W12, <<1>>)>>,
       xs     |-> {IV(<<1, 0>>), IV(<<1, 1>>), IV(<<0, -2>>)},
       epss   |-> E01],
      [layers |-> <<LinearNoBias(W12), ReLU, LinearNoBias(W21)>>,
       xs     |-> {IV(<<1, 0>>), IV(<<-1, 0>>)},
       epss   |-> E01],
      [layers |-> <<ReLU, Linear(W12, <<0>>)>>,
       xs     |-> {IV(<<1, -1>>)},
       epss   |-> E01],
      [layers |-> <<ReLU, Linear(W12, <<0>>)>>,
       xs     |-> {<<tiny, RNeg(tiny)>>},
       epss   |-> {<<0, 1>>, tiny}],
      [layers |-> <<Linear(W11, <<0>>), ReLU, Linear(W11, <<1>>), ReLU, Linear(W11, <<0>>)>>,
       xs     |-> {<<RNeg(tiny)>>, IV(<<0>>)},
       epss   |-> {<<0, 1>>, tiny}],
      [layers |-> <<Linear(W11, <<1>>)>>,
       xs     |-> {IV(<<1>>)},
       epss   |-> E01] }

\* convolution, normalization and reshape
ConvNets ==
    { [layers |-> <<Conv2d(W21, <<0, 0>>),
                    BatchNorm2d(IV(<<1, 2>>), IV(<<0, 1>>), IV(<<0, 1>>),
                                << <<99999, 100000>>, <<399999, 100000>> >>),
                    ReLU, Flatten, Linear(W12, <<0>>)>>,
       xs     |-> {IV(<<1>>), IV(<<0>>)},
       epss   |-> E01] }

\* residual blocks
DenseNets ==
    { [layers |-> <<Dense(<<Linear(W22a, <<0, 0>>)>>), ReLU,
                    Dense(<<Sequential0, NoneLayer, Linear(W22b, <<1, 0>>)>>)>>,
       xs     |-> {IV(<<1, 0>>), IV(<<0, 1>>)},
       epss   |-> E01],
      [layers |-> <<Dense(<<Linear(W22a, <<0, 0>>)>>), ReLU,
                    Dense(<<LinearNoBias(W22b)>>), ReLU,
                    Dense(<<Linear(W22b, <<0, 0>>), NoneLayer, Sequential0, NoneLayer,
                            Linear(W22a, <<0, 1>>)>>),
                    Dense(<<Linear(W12, <<1>>), Linear(W12, <<0>>)>>)>>,
       xs     |-> {IV(<<1, 0>>)},
       epss   |-> E01],
      [layers |-> <<Dense(<<Conv2d(W22a, <<0, 0>>)>>),
                    Dense(<<Linear(W22b, <<0, 0>>), Linear(W22a, <<1, 1>>)>>),
                    Dense(<<Sequential0, Linear(W22a, <<0, 0>>), Linear(W22b, <<0, 0>>)>>)>>,
       xs     |-> {IV(<<1, -1>>)},
       epss   |-> E01] }

\* networks whose construction raises
BadNets ==
    { [layers |-> <<Unknown, Linear(W11, <<0>>)>>, xs |-> {IV(<<1>>)}, epss |-> E01],
      [layers |-> <<Linear(W11, <<0>>), Unknown, Linear(W11, <<0>>)>>,
       xs     |-> {IV(<<1>>)},
       epss   |-> E01],
      [layers |-> <<Linear(W11, <<0>>), ReLU, Unknown>>,
       xs     |-> {IV(<<1>>), IV(<<-1>>)},
       epss   |-> E01],
      [layers |-> <<Dense(<<Linear(W22a, <<0, 0>>)>>), ReLU,
                    Dense(<<Sequential0, Unknown, Linear(W22b, <<1, 0>>)>>)>>,
       xs     |-> {IV(<<1, 0>>)},
       epss   |-> E01],
      [layers |-> <<Dense(<<Linear(W22a, <<0, 0>>)>>), Dense(<<Unknown>>),
                    Linear(W12, <<0>>)>>,
       xs     |-> {IV(<<1, 0>>)},
       epss   |-> E01],
      [layers |-> <<Linear(W22a, <<0, 0>>), ReLU,
                    Dense(<<Sequential0, NoneLayer, Linear(W22b, <<1, 0>>)>>)>>,
       xs     |-> {IV(<<1, 0>>)},
       epss   |-> E01],
      [layers |-> <<Dense(<<Linear(W22a, <<0, 0>>), NoneLayer, Linear(W22b, <<0, 0>>)>>)>>,
       xs     |-> {IV(<<1, 0>>)},
       epss   |-> E01] }

Scenarios == PlainNets \cup ConvNets \cup DenseNets \cup BadNets

\* (l1_proj, l1_type)
ProjCfgs ==
    { <<[none |-> TRUE, k |-> 0], "exact">>,
      <<[none |-> FALSE, k |-> 1], "exact">>,
      <<[none |-> FALSE, k |-> 1], "median">>,
      <<[none |-> FALSE, k |-> -1], "median">> }

\* the values a Cauchy sample takes in the model
CauchyVals == {<<-1, 1>>, <<2, 1>>}

\* the draws of DualReLUProj.__init__ for mask I: one value per direction and unstable
\* activation, 0 where nothing is drawn
CauchySamples(k, I) ==
    { sm \in [1..k -> [1..Len(I) -> CauchyVals \cup {<<0, 1>>}]] :
        \A r \in 1..k : \A j \in 1..Len(I) : (sm[r][j] = <<0, 1>>) <=> ~I[j] }

\* nf: the feature width after every layer
RECURSIVE Widths(_, _, _)
Widths(layers, ws, k) ==
    IF k > Len(layers) THEN ws
    ELSE LET l == IF layers[k].kind = "Dense" /\ layers[k].Ws # <<>>
                  THEN Last(layers[k].Ws) ELSE layers[k]
         IN  Widths(layers,
                    Append(ws, IF l.kind \in {"Linear", "Conv2d"} THEN Len(l.weight)
                               ELSE Last(ws)),
                    k + 1)

OutWidth(layers, x) == Last(Widths(layers, <<Len(x)>>, 1))

\* the objectives c asked for an output of width w
Objectives(w) ==
    IF w = 1 THEN {IV(<<1>>), IV(<<-1>>)}
    ELSE {[k \in 1..w |-> IF k = 1 THEN <<1, 1>> ELSE IF k = 2 THEN <<-1, 1>> ELSE <<0, 1>>],
          [k \in 1..w |-> IF k = 1 THEN <<-1, 1>> ELSE <<0, 1>>]}

Unasked == [set |-> FALSE, val |-> <<0, 1>>]

IdleConv == [pc |-> "idle", fn |-> "", x |-> <<>>, W |-> <<>>, i |-> 0, out |-> <<>>,
             res |-> [ok |-> TRUE, val |-> <<>>]]

----------------------------------------------------------------------------
(* Building and querying the bound chain *)

Init ==
    /\ \E sc \in Scenarios : \E x \in sc.xs :
          /\ net = sc.layers
          /\ X = x
          /\ firstg = [c \in Objectives(OutWidth(sc.layers, x)) |-> Unasked]
          /\ epsilon \in sc.epss
    /\ \E cfg \in ProjCfgs : l1_proj = cfg[1] /\ l1_type = cfg[2]
    /\ pc = "building"
    /\ i = 0
    /\ dual_net = <<InfBall(X, epsilon)>>
    /\ last_layer = NoOp
    /\ err = ""
    /\ lastc = <<>>
    /\ lastg = <<0, 1>>
    /\ sweep = <<>>
    /\ cv = IdleConv

\* the samples the layer at the loop index may draw
Draws ==
    IF net[i + 1].kind = "ReLU" /\ ~l1_proj.none /\ l1_proj.k > 0
    THEN CauchySamples(l1_proj.k, Unstable(Bounds(dual_net)[1], Bounds(dual_net)[2]))
    ELSE {<<>>}

\* the rest of the pass without the test on the last index
SkipLast_always(r) ==
    IF r.err # ""
    THEN /\ pc' = "error"
         /\ err' = r.err
         /\ dual_net' = r.chain
         /\ UNCHANGED <<i, last_layer>>
    ELSE /\ i' = i + 1
         /\ dual_net' = PushAndAppend(r.chain, r.op)
         /\ last_layer' = r.op
         /\ UNCHANGED <<pc, err>>

\* the rest of the pass once the dual operator r.op is made, or r.err raised
\* (lines 552-558)
SkipLast(r) ==
    IF r.err # ""
    THEN /\ pc' = "error"
         /\ err' = r.err
         /\ dual_net' = r.chain
         /\ UNCHANGED <<i, last_layer>>
    ELSE /\ i' = i + 1
         /\ IF i < Len(net) - 1
            THEN /\ dual_net' = PushAndAppend(r.chain, r.op)
                 /\ last_layer' = last_layer
            ELSE /\ dual_net' = r.chain
                 /\ last_layer' = r.op
         /\ UNCHANGED <<pc, err>>

\* one pass of `for i,(in_f,out_f,layer) in enumerate(zip(nf[:-1], nf[1:], net))`
BuildLayer ==
    /\ pc = "building"
    /\ i < Len(net)
    /\ \E cauchy \in Draws :
          SkipLast(MakeDual(net[i + 1], i, dual_net, l1_proj, l1_type, cauchy))
    /\ UNCHANGED <<net, X, epsilon, l1_proj, l1_type, lastc, lastg, firstg, sweep, cv>>

\* self.dual_net = dual_net
Finish ==
    /\ pc = "building"
    /\ i = Len(net)
    /\ pc' = "built"
    /\ UNCHANGED <<net, X, epsilon, l1_proj, l1_type, i, dual_net, last_layer, err,
                   lastc, lastg, firstg, sweep, cv>>

\* one call g(c) on the built object
G ==
    /\ pc = "built"
    /\ \E c \in DOMAIN firstg :
          LET b == g(dual_net, last_layer, c)
          IN  /\ lastc' = c
              /\ lastg' = b
              /\ firstg' = IF firstg[c].set THEN firstg
                           ELSE [firstg EXCEPT ![c] = [set |-> TRUE, val |-> b]]
              /\ sweep' = g_calls(dual_net, last_layer, c)
    /\ dual_net' = g_self_dual_net(dual_net, last_layer)
    /\ UNCHANGED <<net, X, epsilon, l1_proj, l1_type, pc, i, last_layer, err, cv>>

Next == BuildLayer \/ Finish \/ G

Spec == Init /\ [][Next]_vars

----------------------------------------------------------------------------
(* One call of a minibatched helper, step by step *)

\* the numbers of rows tried: none, fewer than a chunk, whole chunks, a remainder
RowCounts ==
    {0, 1, 2, batch_size - 1, batch_size, batch_size + 1, 2 * batch_size,
     2 * batch_size + 1}

Kernels == {W11, <<(<<2>>)>>, <<(<<-1>>)>>}

\* n distinct rows of width w
Rows(n, w) == [r \in 1..n |-> [k \in 1..w |-> R(r + k)]]

InitConv ==
    /\ net = <<>>
    /\ X = <<>>
    /\ epsilon = <<0, 1>>
    /\ l1_proj = [none |-> TRUE, k |-> 0]
    /\ l1_type = "exact"
    /\ pc = "idle"
    /\ i = 0
    /\ dual_net = <<>>
    /\ last_layer = NoOp
    /\ err = ""
    /\ lastc = <<>>
    /\ lastg = <<0, 1>>
    /\ firstg = <<>>
    /\ sweep = <<>>
    /\ cv = IdleConv

Frame == UNCHANGED <<net, X, epsilon, l1_proj, l1_type, pc, i, dual_net, last_layer, err,
                     lastc, lastg, firstg, sweep>>

\* entering conv2d or conv_transpose2d: i = 0, out = []
ConvCall ==
    /\ cv.pc = "idle"
    /\ \E fn \in {"conv2d", "conv_transpose2d"} : \E n \in RowCounts : \E W \in Kernels :
          cv' = [IdleConv EXCEPT !.pc = "loop", !.fn = fn, !.x = Rows(n, 1), !.W = IM(W)]
    /\ Frame

\* one pass of the while loop
ConvIter ==
    /\ cv.pc = "loop"
    /\ cv.i < Len(cv.x)
    /\ cv' = IF cv.fn = "conv2d"
             THEN [cv EXCEPT !.i = conv2d_body(cv, cv.x, cv.W).i,
                             !.out = conv2d_body(cv, cv.x, cv.W).out]
             ELSE [cv EXCEPT !.i = conv_transpose2d_body(cv, cv.x, cv.W).i,
                             !.out = conv_transpose2d_body(cv, cv.x, cv.W).out]
    /\ Frame

\* the loop is left: return torch.cat(out, 0)
ConvReturn ==
    /\ cv.pc = "loop"
    /\ ~(cv.i < Len(cv.x))
    /\ cv' = [cv EXCEPT !.res = torch_cat(cv.out),
                        !.pc = IF torch_cat(cv.out).ok THEN "done" ELSE "error"]
    /\ Frame

NextConv == ConvCall \/ ConvIter \/ ConvReturn

SpecConv == InitConv /\ [][NextConv]_vars

----------------------------------------------------------------------------
(* Vocabulary of the properties *)

Range(sq) == {sq[k] : k \in 1..Len(sq)}

\* every operator object of the chain: its entries, the last layer once assigned, and
\* the sub-layer operators of the residual blocks among them
TopOps == Range(dual_net) \cup (IF last_layer.cls = "None" THEN {} ELSE {last_layer})

AllOps == TopOps \cup UNION {Range(NotNone(op.duals)) : op \in TopOps}

ReLUOps == {op \in AllOps : op.cls \in {"DualReLU", "DualReLUProj"}}

\* the relaxation of every ReLU layer so far is the exact one
ExactChain == \A op \in AllOps : op.cls # "DualReLUProj"

\* points of the ball: x + epsilon*s with every s[k] a multiple of 1/2 in [-1, 1]
Steps == {<<-1, 1>>, <<-1, 2>>, <<0, 1>>, <<1, 2>>, <<1, 1>>}

BallPoints == {[k \in 1..Len(X) |-> RAdd(X[k], RMul(epsilon, sg[k]))] : sg \in [1..Len(X) -> Steps]}

\* zs[k] of the forward pass on input x (k = 0 is x itself)
zsOf(x, k) == Forward(net, x, 1)[k + 1]

NetOut(x) == Last(Forward(net, x, 1))

\* the build loop stands before a ReLU layer of an affine/ReLU network
AtReLU ==
    /\ pc = "building"
    /\ i < Len(net)
    /\ AffineReLU(net)
    /\ net[i + 1].kind = "ReLU"

\* a bound has been asked of a chain built on an affine/ReLU network
Asked == pc = "built" /\ lastc # <<>>

\* C1: soundness. Before every ReLU layer the interval [zl, zu] summed over the
\* chain holds the pre-activation of every point of the ball, and a returned bound
\* g(c) is at most c . net(x') for every point x' of the ball.
C1_Soundness ==
    /\ (AtReLU /\ ExactChain) =>
          \A xp \in BallPoints :
              /\ VLe(Bounds(dual_net)[1], zsOf(xp, i))
              /\ VLe(zsOf(xp, i), Bounds(dual_net)[2])
    /\ (Asked /\ AffineReLU(net) /\ ExactChain) =>
          \A xp \in BallPoints : RLe(lastg, Dot(lastc, NetOut(xp)))

\* C2: the slope of an activation with zl <= zu is in [0,1], is 1 when zl >= 0, is 0
\* when zu <= 0 (read for zl < 0: at zl = zu = 0 the two cases meet), and is
\* zu/(zu-zl) when the activation is marked unstable.
C2_Slope ==
    AtReLU =>
        LET zl == Bounds(dual_net)[1]
            zu == Bounds(dual_net)[2]
            dd == Slope(zl, zu)
        IN  \A j \in 1..Len(zl) :
                RLe(zl[j], zu[j]) =>
                    /\ RLe(<<0, 1>>, dd[j]) /\ RLe(dd[j], <<1, 1>>)
                    /\ RLe(<<0, 1>>, zl[j]) => dd[j] = <<1, 1>>
                    /\ (RLe(zu[j], <<0, 1>>) /\ RLt(zl[j], <<0, 1>>)) => dd[j] = <<0, 1>>
                    /\ Unstable(zl, zu)[j] => dd[j] = RDiv(zu[j], RSub(zu[j], zl[j]))

\* the least of c . net(x') over the points of the ball
MinOverBall(c) ==
    CHOOSE v \in {Dot(c, NetOut(xp)) : xp \in BallPoints} :
        \A xp \in BallPoints : RLe(v, Dot(c, NetOut(xp)))

\* C9: tightness. With epsilon = 0, or with no ReLU layer marking an activation
\* unstable, the bound g(c) is the exact value: c . net(x), respectively the least
\* value of c . net over the ball.
C9_Tightness ==
    (Asked /\ AffineReLU(net) /\ ExactChain
       /\ (epsilon = <<0, 1>> \/ \A op \in ReLUOps : op.I_empty))
        => lastg = MinOverBall(lastc)

\* the dual classes a layer kind is given
DualOf(kind) ==
    CASE kind = "Linear"      -> {"DualLinear"}
      [] kind = "Conv2d"      -> {"DualConv2d"}
      [] kind = "ReLU"        -> {"DualReLU", "DualReLUProj"}
      [] kind = "Flatten"     -> {"DualReshape"}
      [] kind = "Dense"       -> {"DualDense"}
      [] kind = "BatchNorm2d" -> {"DualBatchNorm2d"}
      [] OTHER                -> {}

\* layer indices a..b in order
Span(a, b) == [m \in 1..(b - a + 1) |-> a + m - 1]

\* C3: the chain is the ball followed by the operators of the layers met so far, in
\* network order, the last layer's kept apart as last_layer; every entry has been
\* pushed through exactly the layers appended after it, once each and in order, and
\* never through the last layer; a built chain of N layers has N entries.
C3_Chain ==
    pc \in {"building", "built", "error"} =>
        /\ Len(dual_net) = 1 + Min(i, Len(net) - 1)
        /\ dual_net[1].cls = "InfBall"
        /\ \A k \in 2..Len(dual_net) :
              /\ dual_net[k].layer = k - 2
              /\ dual_net[k].cls \in DualOf(net[k - 1].kind)
        /\ \A k \in 1..Len(dual_net) :
              dual_net[k].applied = Span(k - 1, Len(dual_net) - 2)
        /\ (last_layer.cls # "None") <=> (i = Len(net))
        /\ i = Len(net) =>
              /\ last_layer.layer = Len(net) - 1
              /\ last_layer.cls \in DualOf(net[Len(net)].kind)
              /\ last_layer.applied = <<>>
        /\ pc = "built" => Len(dual_net) = Len(net)

C3_Witness ==
    /\ pc = "built"
    /\ Len(net) = 5
    /\ dual_net[2].applied = <<1, 2, 3>>
    /\ last_layer.layer = 4

\* the lengths of the history lists an operator holds
HistLens(op) ==
    CASE op.cls = "InfBall"         -> {Len(op.nu_x), Len(op.nu_1)}
      [] op.cls = "DualLinear"      -> {Len(op.bias)}
      [] op.cls = "DualConv2d"      -> {Len(op.bias)}
      [] op.cls = "DualReLU"        -> {Len(op.nus)}
      [] op.cls = "DualReLUProj"    -> {Len(op.nus), Len(op.nu_ones)}
      [] op.cls = "DualBatchNorm2d" -> {Len(op.ds)}
      [] OTHER                      -> {}

\* the operator was given no history: an affine layer without bias (bias is None),
\* a ReLU with nothing unstable (nus never created)
NoHistory(op) ==
    \/ op.cls \in {"DualLinear", "DualConv2d"} /\ ~op.hasBias
    \/ op.cls \in {"DualReLU", "DualReLUProj"} /\ op.I_empty

\* C4 as stated: every operator's history is one longer than the number of apply
\* calls on it, the bias-free affine and the empty ReLU included.
C4_AsStated == \A op \in AllOps : HistLens(op) \subseteq {Len(op.applied) + 1}

\* C4: an operator that owns a history has it one longer than the number of apply
\* calls on it; an affine operator without bias and a ReLU operator with no unstable
\* activation own none, and apply leaves them without one.
C4_History ==
    \A op \in AllOps :
        IF NoHistory(op) THEN HistLens(op) = {0}
        ELSE HistLens(op) \subseteq {Len(op.applied) + 1}

C4_Witness ==
    /\ \E op \in AllOps : op.cls = "DualLinear" /\ ~op.hasBias /\ Len(op.applied) >= 1
    /\ \E op \in AllOps : op.cls = "DualReLU" /\ op.I_empty /\ Len(op.applied) >= 1
    /\ \E op \in AllOps : op.cls = "DualLinear" /\ op.hasBias /\ Len(op.bias) >= 3

\* C5: evaluating a bound changes nothing of the built chain (the list, the last
\* layer, and with them every history, routing list, I, d, zl), and an objective
\* evaluated again, after any other evaluations, gets the bound it got first.
C5_GReadOnly ==
    /\ [][pc = "built" => (dual_net' = dual_net /\ last_layer' = last_layer)]_vars
    /\ [](Asked => (firstg[lastc].set /\ lastg = firstg[lastc].val))

C5_Witness ==
    /\ Asked
    /\ \A c \in DOMAIN firstg : firstg[c].set
    /\ \E op \in AllOps : op.cls = "DualDense" /\ Len(op.dual_ts) >= 3

\* the non-None sub-layers of the residual blocks: <<layer index, slot>>
DenseSlots ==
    {ls \in (0..(Len(net) - 1)) \X (0..4) :
        /\ net[ls[1] + 1].kind = "Dense"
        /\ ls[2] < Len(net[ls[1] + 1].Ws)
        /\ net[ls[1] + 1].Ws[ls[2] + 1].kind # "None"}

\* the one transpose owed to slot sl of the block of layer L (chain position L+1, m
\* slots): on the certificate at the block's output, nu[N-(L+1)], by the operator
\* m-1-sl positions before the block
OwedCall(L, sl) ==
    <<L, sl, Len(net) - (L + 1), (L + 1) - (Len(net[L + 1].Ws) - 1 - sl)>>

\* C6: in one sweep of g every non-None sub-layer of every residual block is
\* transposed exactly once, on the certificate of its block's output, inside the
\* affine_transpose of the operator m-1-i positions before the block; nothing else
\* is transposed through a block.
C6_Routing ==
    Asked =>
        /\ Range(sweep) = {OwedCall(ls[1], ls[2]) : ls \in DenseSlots}
        /\ Len(sweep) = Cardinality(DenseSlots)

C6_Witness ==
    /\ Asked
    /\ \E k \in 1..Len(sweep) : sweep[k][4] + 4 = sweep[k][1] + 1
    /\ \E k \in 1..Len(sweep) : sweep[k][4] + 1 = sweep[k][1] + 1 /\ sweep[k][2] = 0

Recognized(layer) ==
    layer.kind \in {"Linear", "Conv2d", "ReLU", "Flatten", "Dense", "BatchNorm2d"}

RecognizedSub(W) == W.kind \in {"Conv2d", "Linear", "Sequential", "None"}

\* the layer is of no kind the constructors know, or a block holding such a sub-layer
Unsupported(layer) ==
    \/ ~Recognized(layer)
    \/ layer.kind = "Dense" /\ \E k \in 1..Len(layer.Ws) : ~RecognizedSub(layer.Ws[k])

HasUnsupported == \E k \in 1..Len(net) : Unsupported(net[k])

\* C7: on a network with an unsupported layer, wherever it stands, the build never
\* assigns self.dual_net: the loop cannot run past that layer, and when it reaches it
\* ValueError is raised.
C7_Unsupported ==
    (pc \in {"building", "built", "error"} /\ HasUnsupported) =>
        /\ pc # "built"
        /\ \E k \in 1..Len(net) : Unsupported(net[k]) /\ i < k
        /\ (pc = "error" /\ Unsupported(net[i + 1])) => err = "ValueError"
        /\ (pc = "building" /\ Unsupported(net[i + 1])) =>
              \A cauchy \in Draws :
                 MakeDual(net[i + 1], i, dual_net, l1_proj, l1_type, cauchy).err = "ValueError"

C7_Witness ==
    /\ pc = "error"
    /\ err = "ValueError"
    /\ i = Len(net) - 1
    /\ i = 2
    /\ net[i + 1].kind = "Dense"

Ones(n) == [k \in 1..n |-> <<1, 1>>]

\* directions tried on an operator of width n
Dirs(n) == {Ones(n), VNeg(Ones(n)), [k \in 1..n |-> <<k, 1>>]}

\* a ReLU operator built with no unstable activation is in the empty state: it holds
\* no history whatever was applied to it, its fval() is (0, 0) and its fval with a
\* direction is 0
EmptyReLU(op) ==
    /\ op.I_empty
    /\ op.nus = <<>>
    /\ op.nu_ones = <<>>
    /\ fval0(op, Len(op.d)) = <<Zeros(Len(op.d)), Zeros(Len(op.d))>>
    /\ \A u \in Dirs(Len(op.d)) : \A v \in Dirs(Len(op.d)) : fval(op, u, v) = <<0, 1>>

\* C8 as stated: ... and affine and affine_transpose return zero.
C8_AsStated ==
    \A op \in ReLUOps :
        I_sum(op.I) = 0 =>
            /\ EmptyReLU(op)
            /\ \A u \in Dirs(Len(op.d)) :
                  /\ affine(op, << <<u>> >>) = <<Zeros(Len(op.d))>>
                  /\ affine_transpose(op, << <<u>> >>) = <<Zeros(Len(op.d))>>

\* C8: with no unstable activation apply appends nothing, fval() is (0, 0) and fval
\* with a direction is 0; affine and affine_transpose are no no-ops: they pass the
\* activations with zl >= -1e-5 unchanged (slope 1) and zero the others (slope 0).
C8_EmptyReLU ==
    \A op \in ReLUOps :
        I_sum(op.I) = 0 =>
            /\ EmptyReLU(op)
            /\ \A u \in Dirs(Len(op.d)) : \A j \in 1..Len(op.d) :
                  /\ affine(op, << <<u>> >>)[1][j]
                        = IF RLe(RNeg(tol), op.zl[j]) THEN u[j] ELSE <<0, 1>>
                  /\ affine_transpose(op, << <<u>> >>)[1][j]
                        = IF RLe(RNeg(tol), op.zl[j]) THEN u[j] ELSE <<0, 1>>

C8_Witness ==
    /\ \E op \in ReLUOps :
          /\ op.cls = "DualReLUProj" /\ op.I_empty /\ Len(op.applied) >= 1
          /\ \E j \in 1..Len(op.d) : op.d[j] = <<1, 1>>
    /\ Asked

\* the primitive on the whole input, in one call
Primitive(fn, x, W) == IF fn = "conv2d" THEN F_conv2d(x, W) ELSE F_conv_transpose2d(x, W)

\* C10: for any number of rows, none included, a helper returns what one call of
\* the primitive on the whole input returns.
C10_SameAsPrimitive ==
    cv.pc \in {"done", "error"} =>
        /\ cv.res.ok
        /\ cv.res.val = Primitive(cv.fn, cv.x, cv.W)

\* the value term of operator m of dual_net + [last_layer] (m = 1 the ball), given
\* the list nu of the sweep (nu[1] = -c): its direction is the certificate at its
\* output, its prior direction the one at its input, None (<<>>) for the ball
ValueTerm(nu, m) ==
    LET all == Append(dual_net, last_layer)
        N   == Len(dual_net)
    IN  IF m = 1 THEN fval(all[1], nu[N + 1][1], <<>>)
        ELSE fval(all[m], nu[N + 2 - m][1], nu[N + 3 - m][1])

\* C11: on a chain of N layers the sweep of g(c) yields -c and exactly N
\* certificates, the first the last layer's transpose of -c, the next ones the
\* transposes of chain entries N-1 down to 1 (never the ball's), each applied to the
\* certificates so far; the bound is the sum of N+1 value terms, one per operator,
\* each with the certificate at its output as direction and the one at its input as
\* prior direction (the last layer: -c; the ball: no prior direction).
C11_Sweep ==
    pc = "built" =>
        /\ Len(dual_net) = Len(net)
        /\ \A c \in DOMAIN firstg :
              LET nu == g_nu(dual_net, last_layer, c)
                  N  == Len(net)
              IN  /\ Len(nu) = N + 1
                  /\ nu[1] = <<VNeg(c)>>
                  /\ nu[2] = affine_transpose(last_layer, <<nu[1]>>)
                  /\ \A k \in 1..(N - 1) :
                        nu[k + 2] = affine_transpose(dual_net[N + 1 - k], SubSeq(nu, 1, k + 1))
                  /\ g(dual_net, last_layer, c) = RSum([m \in 1..(N + 1) |-> ValueTerm(nu, m)])
                  /\ (lastc = c) => lastg = RSum([m \in 1..(N + 1) |-> ValueTerm(nu, m)])

C11_Witness ==
    /\ Asked
    /\ Len(net) = 5
    /\ \E op \in ReLUOps : ~op.I_empty
    /\ lastg # <<0, 1>>

\* a projection size is configured, l1_type is 'median' and the operator's count of
\* unstable activations is strictly greater than the size
OverThreshold(op) == ~l1_proj.none /\ l1_type = "median" /\ I_sum(op.I) > l1_proj.k

ChainOps == Range(dual_net) \cup UNION {Range(NotNone(op.duals)) : op \in Range(dual_net)}

\* the width of the tensors the chain entries hold now
ChainWidth == Len(Last(dual_net[1].nu_x)[1])

\* C13: with epsilon >= 0 every chain operator's fval() is a pair lower <= upper
\* (elementwise), for the exact ReLU operator lower <= 0 <= upper, zl being negative
\* on the unstable set; so at every ReLU layer the summed bounds have zl <= zu, and
\* zu - zl > 0 on every unstable activation.
C13_Ordered ==
    (pc \in {"building", "built", "error"} /\ RLe(<<0, 1>>, epsilon)) =>
        /\ \A op \in ChainOps :
              /\ VLe(fval0(op, ChainWidth)[1], fval0(op, ChainWidth)[2])
              /\ op.cls = "DualReLU" =>
                    /\ VLe(fval0(op, ChainWidth)[1], Zeros(ChainWidth))
                    /\ VLe(Zeros(ChainWidth), fval0(op, ChainWidth)[2])
              /\ op.cls \in {"DualReLU", "DualReLUProj"} =>
                    \A j \in 1..Len(op.I) : op.I[j] => RLt(op.zl[j], <<0, 1>>)
        /\ AtReLU =>
              /\ VLe(Bounds(dual_net)[1], Bounds(dual_net)[2])
              /\ \A j \in 1..ChainWidth :
                    Unstable(Bounds(dual_net)[1], Bounds(dual_net)[2])[j] =>
                        RLt(<<0, 1>>, RSub(Bounds(dual_net)[2][j], Bounds(dual_net)[1][j]))

C13_Witness ==
    /\ AtReLU
    /\ RLt(<<0, 1>>, epsilon)
    /\ \E op \in ChainOps :
          /\ op.cls = "DualReLU" /\ ~op.I_empty
          /\ \E k \in 1..ChainWidth :
                /\ RLt(fval0(op, ChainWidth)[1][k], <<0, 1>>)
                /\ RLt(<<0, 1>>, fval0(op, ChainWidth)[2][k])
    /\ \E j \in 1..ChainWidth : Unstable(Bounds(dual_net)[1], Bounds(dual_net)[2])[j]

====
